---- MODULE Spec2Model ----
(***************************************************************************)
(* FOURIER_VIEW: the live sampling and freeze controller of the DFT view   *)
(* (client/src/hooks/useDFTCalculation.tsx) on top of the DFT engine       *)
(* (utils/dft.ts), as a state machine of the React hook: the props the     *)
(* hook is rendered with, its state cells, the passive effect that is      *)
(* pending after a commit, and the animation-frame callbacks that are      *)
(* queued, each with the props its closure captured.                       *)
(*                                                                         *)
(* Numbers.  Samples are integers.  A cosine or sine of a rational turn is *)
(* kept exactly, as c * cos(2*pi*a/b) with a/b reduced and 0 <= a/b < 1/4; *)
(* floating-point rounding is not modelled.                                *)
(***************************************************************************)
EXTENDS Integers, Sequences, FiniteSets, TLC

(***************************************************************************)
(* Bounds of the model.                                                    *)
(***************************************************************************)
\* most animation-frame callbacks pending at one time
MaxRaf == 2
\* updateDFT is followed while it leaves currentSample at most this
MaxSample == 7

\* sample windows the input field is set to
SampleWindows == {8, 2048}
\* bins the user selects
Bins == {0, 1}
\* contents of the analyser's time-domain buffer
Signals == {"silence", "square"}

(***************************************************************************)
(* Arithmetic.                                                             *)
(***************************************************************************)
Min(a, b) == IF a < b THEN a ELSE b

Abs(x) == IF x < 0 THEN -x ELSE x

RECURSIVE Gcd(_, _)
Gcd(a, b) == IF b = 0 THEN a ELSE Gcd(b, a % b)

\* the real number c * cos(2*pi*a/b), in canonical form
Num(c, a, b) ==
  IF c = 0 \/ 4 * a = b THEN [c |-> 0, a |-> 0, b |-> 1]
  ELSE IF a = 0 THEN [c |-> c, a |-> 0, b |-> 1]
  ELSE LET g == Gcd(a, b) IN [c |-> c, a |-> a \div g, b |-> b \div g]

Whole(c) == Num(c, 0, 1)

\* Math.cos of the angle 2*pi*p/q, q > 0
Cos(p, q) ==
  LET r  == p % q
      r2 == IF 2 * r > q THEN q - r ELSE r
  IN  IF 4 * r2 <= q THEN Num(1, 2 * r2, 2 * q)
      ELSE Num(-1, q - 2 * r2, 2 * q)

\* a sine that is the cosine
SinAsCos(p, q) == Cos(p, q)

\* Math.sin of the angle 2*pi*p/q, q > 0
Sin(p, q) == Cos(4 * p - q, 4 * q)

\* the product of an integer sample and a Num
Scale(s, x) == Num(s * x.c, x.a, x.b)

\* A sum of Nums is kept as a formal sum: the function that gives, for each
\* angle <<a, b>> that occurs, the coefficient of cos(2*pi*a/b) when it is
\* not 0.  Equal formal sums are equal numbers.
Zero == [g \in {} |-> 0]

\* the formal sum of one Num
Term(x) == IF x.c = 0 THEN Zero ELSE [g \in {<<x.a, x.b>>} |-> x.c]

\* the sum of two formal sums
AddSum(S, T) ==
  LET angles == DOMAIN S \cup DOMAIN T
      raw    == [g \in angles |->
                   (IF g \in DOMAIN S THEN S[g] ELSE 0)
                     + (IF g \in DOMAIN T THEN T[g] ELSE 0)]
  IN  [g \in {h \in angles : raw[h] # 0} |-> raw[g]]

(***************************************************************************)
(* utils/dft.ts: the twiddle factor                                        *)
(***************************************************************************)
\* getTwiddleFactor(N, k, n): angle = -2*pi*k*n/N, (cos(angle), sin(angle))
getTwiddleFactor(N, k, n) ==
  [real |-> Cos(-(k * n), N), imag |-> Sin(-(k * n), N)]

(***************************************************************************)
(* Arrays.  An array is kept as its length and the arguments of the loop   *)
(* that fills it, and its entry i is computed from them as the body of the *)
(* loop computes it: two arrays that are kept alike are equal, entry by    *)
(* entry.                                                                  *)
(*                                                                         *)
(* The analyser node: fftSize = 2048, so its buffers hold                  *)
(* frequencyBinCount = 1024 samples of the signal that is playing.         *)
(***************************************************************************)
frequencyBinCount == 1024

\* sample i of a signal
Sample(sig, i) ==
  CASE sig = "silence" -> 0
    [] sig = "impulse" -> IF i = 0 THEN 1 ELSE 0
    [] sig = "square"  -> IF i % 2 = 0 THEN 1 ELSE -1
    [] sig = "inverted" -> IF i % 2 = 0 THEN -1 ELSE 1

\* timeArray = new Float32Array(bufferLength), filled by
\* analyserNode.getFloatTimeDomainData(timeArray)
getFloatTimeDomainData(sig) == [len |-> frequencyBinCount, sig |-> sig]

\* a Float32Array that is given by its entries
Float32Array(data) ==
  [len |-> Len(data), from |-> [len |-> Len(data), sig |-> "data", data |-> data]]

TimeAt(timeArray, i) ==
  IF timeArray.sig = "data" THEN timeArray.data[i + 1]
  ELSE Sample(timeArray.sig, i)

\* windowData = new Float32Array(sampleWindow), windowData[i] = timeArray[i] || 0
WindowData(timeArray, sampleWindow) == [len |-> sampleWindow, from |-> timeArray]

\* a window that reads the signal on, past the end of the buffer
WindowAtUnpadded(windowData, i) == TimeAt(windowData.from, i)

WindowAt(windowData, i) ==
  IF i < windowData.from.len THEN TimeAt(windowData.from, i) ELSE 0

(***************************************************************************)
(* utils/dft.ts, continued                                                 *)
(***************************************************************************)
\* real += ..., imag += ...: the sums of two pairs of running sums
AddSums(x, y) == [real |-> AddSum(x.real, y.real), imag |-> AddSum(x.imag, y.imag)]

\* calculateDFT(signal, k, maxN): N = maxN || signal.length, the two running
\* sums over n < min(N, signal.length) of signal[n] times the cosine and the
\* sine of baseAngle * n; maxN = 0 stands for an omitted maxN.  The terms
\* lo <= n < hi are added by halves, which gives the sums of the loop.
RECURSIVE DFTSum(_, _, _, _, _)
DFTSum(signal, k, N, lo, hi) ==
  IF hi <= lo THEN [real |-> Zero, imag |-> Zero]
  ELSE IF hi = lo + 1
  THEN [real |-> Term(Scale(WindowAt(signal, lo), Cos(-(k * lo), N))),
        imag |-> Term(Scale(WindowAt(signal, lo), Sin(-(k * lo), N)))]
  ELSE LET mid == (lo + hi) \div 2
       IN  AddSums(DFTSum(signal, k, N, lo, mid), DFTSum(signal, k, N, mid, hi))

\* the transform over the length of the signal, whatever maxN is
calculateDFTOverLength(signal, k, maxN) ==
  DFTSum(signal, k, signal.len, 0, signal.len)

calculateDFT(signal, k, maxN) ==
  LET N == IF maxN # 0 THEN maxN ELSE signal.len
  IN  DFTSum(signal, k, N, 0, Min(N, signal.len))

(***************************************************************************)
(* utils/dft.ts: magnitude and phase.  Both are kept exactly where the     *)
(* parts of the complex number are whole: the magnitude sqrt(n) as         *)
(* whole * sqrt(under) with under free of squares, the phase in degrees    *)
(* where it is a multiple of 45.  A sum in the code starts at +0 and is    *)
(* never -0, so that atan2 of a number without imaginary part is 0 or 180. *)
(***************************************************************************)
\* the integer of a formal sum that has no angle other than 0
WholePart(S) == IF <<0, 1>> \in DOMAIN S THEN S[<<0, 1>>] ELSE 0

\* Math.sqrt(n) for an integer n >= 0
Sqrt(n) ==
  IF n = 0 THEN [whole |-> 0, under |-> 1]
  ELSE LET r == CHOOSE d \in 1..n :
                  /\ n % (d * d) = 0
                  /\ \A e \in (d + 1)..n : n % (e * e) # 0
       IN  [whole |-> r, under |-> n \div (r * r)]

\* an atan2 that takes a real part 0 for -0
Atan2DegreesNegativeZero(im, re) ==
  IF im = 0 THEN [deg |-> IF re > 0 THEN 0 ELSE 180]
  ELSE [atan2 |-> <<im, re>>]

\* Math.atan2(im, re) * (180 / Math.PI) for integers im, re
Atan2Degrees(im, re) ==
  IF im = 0 THEN [deg |-> IF re >= 0 THEN 0 ELSE 180]
  ELSE IF re = 0 THEN [deg |-> IF im > 0 THEN 90 ELSE -90]
  ELSE IF Abs(im) = Abs(re)
  THEN [deg |-> IF im > 0 THEN (IF re > 0 THEN 45 ELSE 135)
                ELSE (IF re > 0 THEN -45 ELSE -135)]
  ELSE [atan2 |-> <<im, re>>]

\* getMagnitude(complex): Math.sqrt(real * real + imag * imag)
getMagnitude(complex) ==
  IF DOMAIN complex.real \cup DOMAIN complex.imag \subseteq {<<0, 1>>}
  THEN Sqrt(WholePart(complex.real) * WholePart(complex.real)
              + WholePart(complex.imag) * WholePart(complex.imag))
  ELSE [sqrtOf |-> complex]

\* a phase that is 0 by convention
getPhaseZero(complex) == [deg |-> 0]

\* getPhase(complex): Math.atan2(imag, real) * (180 / Math.PI)
getPhase(complex) ==
  IF DOMAIN complex.real \cup DOMAIN complex.imag \subseteq {<<0, 1>>}
  THEN Atan2Degrees(WholePart(complex.imag), WholePart(complex.real))
  ELSE [atan2Of |-> complex]

(***************************************************************************)
(* useDFTCalculation: the arrays of one invocation of updateDFT.           *)
(***************************************************************************)
\* the cap on the bins, and the cap on the twiddle series
BinCap == 1024

FactorCap == 1024

\* the bins without the cap
maxBinsUncapped(sampleWindow) == sampleWindow

maxBins(sampleWindow) == Min(sampleWindow, BinCap)

\* results: for k < maxBins, push the result of calculateDFT(windowData, k, maxBins)
Results(windowData, sampleWindow) ==
  [len |-> maxBins(sampleWindow), signal |-> windowData,
   maxN |-> maxBins(sampleWindow)]

ResultAt(results, k) == calculateDFT(results.signal, k, results.maxN)

\* the entry that is pushed for bin k: the parts, the magnitude and the phase
DFTResultAt(results, k) ==
  LET dftValue == ResultAt(results, k)
  IN  [real |-> dftValue.real, imag |-> dftValue.imag,
       magnitude |-> getMagnitude(dftValue), phase |-> getPhase(dftValue)]

maxFactors(sampleWindow) == Min(sampleWindow, FactorCap)

\* a twiddle series of the capped transform length
FactorsCappedN(windowData, sampleWindow, selectedFrequencyBin) ==
  [len |-> maxFactors(sampleWindow), window |-> windowData,
   N |-> maxFactors(sampleWindow), k |-> selectedFrequencyBin]

\* factors: for n < maxFactors, push the twiddle factor of
\* (sampleWindow, selectedFrequencyBin, n) with sample n and their product
Factors(windowData, sampleWindow, selectedFrequencyBin) ==
  [len |-> maxFactors(sampleWindow), window |-> windowData,
   N |-> sampleWindow, k |-> selectedFrequencyBin]

\* an entry whose product is taken with the magnitude of the sample
FactorAtMagnitude(factors, n) ==
  LET amplitude == WindowAt(factors.window, n)
      twiddle   == getTwiddleFactor(factors.N, factors.k, n)
  IN  [real |-> twiddle.real, imag |-> twiddle.imag,
       amplitude |-> Abs(amplitude),
       result |-> [real |-> Scale(Abs(amplitude), twiddle.real),
                   imag |-> Scale(Abs(amplitude), twiddle.imag)]]

FactorAt(factors, n) ==
  LET amplitude == WindowAt(factors.window, n)
      twiddle   == getTwiddleFactor(factors.N, factors.k, n)
  IN  [real |-> twiddle.real, imag |-> twiddle.imag,
       amplitude |-> Abs(amplitude),
       result |-> [real |-> Scale(amplitude, twiddle.real),
                   imag |-> Scale(amplitude, twiddle.imag)]]

(***************************************************************************)
(* The state.                                                              *)
(***************************************************************************)
VARIABLES
  analyserNode,          \* prop: TRUE when the analyser node is not null
  sampleWindow,          \* prop
  selectedFrequencyBin,  \* prop
  isPlaying,             \* prop
  signal,                \* what the analyser's buffers hold
  timeData,              \* state cells of the hook
  dftResults,
  twiddleFactors,
  currentSample,
  frozenData,
  dirty,                 \* the dependencies of the effect that changed since it ran
  rafQueue,              \* the closures of the pending requestAnimationFrame calls
  run,                   \* the last invocation of updateDFT
  ran,                   \* the last step invoked updateDFT
  frozenStamp,           \* the invocations that produced the parts of frozenData
  engine,                \* a call of calculateDFT from outside the hook
  player,                \* the state of useAudioProcessor and of its sources
  analyzer               \* the ref and the canvas of SpectrumAnalyzer

props == <<analyserNode, sampleWindow, selectedFrequencyBin, isPlaying>>

cells == <<timeData, dftResults, twiddleFactors, currentSample, frozenData>>

\* the state of the hook
hook == <<analyserNode, sampleWindow, selectedFrequencyBin, isPlaying, signal,
          timeData, dftResults, twiddleFactors, currentSample, frozenData,
          dirty, rafQueue, run, ran, frozenStamp>>

vars == <<hook, engine, player, analyzer>>

\* the value null, told apart from every array and every snapshot
null == [null |-> TRUE]

\* useState([]) of dftResults
NoResults == [len |-> 0]

\* useState([]) of twiddleFactors
NoFactors == [len |-> 0]

\* the props a render passes to the effect and to updateDFT
Closure ==
  [sampleWindow |-> sampleWindow,
   selectedFrequencyBin |-> selectedFrequencyBin,
   isPlaying |-> isPlaying]

\* the effect runs after a commit in which one of its dependencies changed
effectPending == dirty # {}

\* a hook that returns the snapshot whenever there is one
currentDataKeepsSnapshot ==
  IF frozenData # null
  THEN [timeData |-> frozenData.timeData,
        dftResults |-> frozenData.dftResults,
        twiddleFactors |-> frozenData.twiddleFactors]
  ELSE [timeData |-> timeData,
        dftResults |-> dftResults,
        twiddleFactors |-> twiddleFactors]

\* what the hook returns: the frozen data if paused, otherwise the live data
currentData ==
  IF ~isPlaying /\ frozenData # null
  THEN [timeData |-> frozenData.timeData,
        dftResults |-> frozenData.dftResults,
        twiddleFactors |-> frozenData.twiddleFactors]
  ELSE [timeData |-> timeData,
        dftResults |-> dftResults,
        twiddleFactors |-> twiddleFactors]

\* the stamp of one invocation on the three parts of a snapshot
StampOf(stamp) ==
  [timeData |-> stamp, dftResults |-> stamp, twiddleFactors |-> stamp]

Init ==
  /\ analyserNode = FALSE
  /\ sampleWindow = 8
  /\ selectedFrequencyBin = 0
  /\ isPlaying = FALSE
  /\ signal = "silence"
  /\ timeData = null
  /\ dftResults = NoResults
  /\ twiddleFactors = NoFactors
  /\ currentSample = 0
  /\ frozenData = null
  /\ dirty = {"mount"}
  /\ rafQueue = <<>>
  /\ run = [via |-> "none", cl |-> Closure, live |-> Closure, stamp |-> FALSE,
            frame |-> 0, threw |-> FALSE]
  /\ ran = FALSE
  /\ frozenStamp = StampOf(FALSE)
  /\ engine = null
  /\ player = null
  /\ analyzer = null

(***************************************************************************)
(* updateDFT, invoked with the closure cl, by the effect or by a frame.    *)
(***************************************************************************)
\* a snapshot that is updated in place, part by part: the twiddle series of
\* the snapshot before stays
FrozenOfInPlace(windowData, results, factors) ==
  [timeData |-> windowData, dftResults |-> results,
   twiddleFactors |-> IF frozenData = null THEN factors
                      ELSE frozenData.twiddleFactors]

\* setFrozenData of lines 100-105: the three copies, in one object
FrozenOf(windowData, results, factors) ==
  [timeData |-> windowData, dftResults |-> results, twiddleFactors |-> factors]

\* a snapshot that is written whether or not the transport plays
FreezesAlways(cl) == TRUE

\* if (isPlaying) of line 100, with the isPlaying of the closure
Freezes(cl) == cl.isPlaying

\* a callback that is not requested again
RescheduleNever(queue, cl) == queue

\* the frames that are queued after the invocation
Reschedule(queue, cl) == IF cl.isPlaying THEN Append(queue, cl) ELSE queue

\* NaN, the value of (prev + 1) % 0: a sample index is never negative, and
\* the negative number stands for the value that is not a number
NaN == -1

\* setCurrentSample((prev) => (prev + 1) % sampleWindow), for N >= 0
NextSample(prev, N) == IF prev = NaN \/ N = 0 THEN NaN ELSE (prev + 1) % N

\* new Float32Array(sampleWindow) throws a RangeError for a negative length
Throws(cl) == cl.sampleWindow < 0

updateDFT(via, cl, queue) ==
  LET timeArray  == getFloatTimeDomainData(signal)
      windowData == WindowData(timeArray, cl.sampleWindow)
      results    == Results(windowData, cl.sampleWindow)
      factors    == Factors(windowData, cl.sampleWindow, cl.selectedFrequencyBin)
      stamp      == ~run.stamp
  IN  IF Throws(cl)
      THEN \* setTimeData was called; the exception leaves updateDFT at line 51
           /\ timeData' = timeArray
           /\ UNCHANGED <<dftResults, twiddleFactors, currentSample,
                          frozenData, frozenStamp>>
           /\ rafQueue' = queue
           /\ run' = [via |-> via, cl |-> cl, live |-> Closure, stamp |-> stamp,
                      frame |-> run.frame, threw |-> TRUE]
           /\ ran' = TRUE
      ELSE /\ NextSample(currentSample, cl.sampleWindow) <= MaxSample
           /\ timeData' = timeArray
           /\ dftResults' = results
           /\ twiddleFactors' = factors
           /\ currentSample' = NextSample(currentSample, cl.sampleWindow)
           /\ IF Freezes(cl)
              THEN /\ frozenData' = FrozenOf(windowData, results, factors)
                   /\ frozenStamp' = StampOf(stamp)
              ELSE UNCHANGED <<frozenData, frozenStamp>>
           /\ rafQueue' = Reschedule(queue, cl)
           /\ run' = [via |-> via, cl |-> cl, live |-> Closure, stamp |-> stamp,
                      frame |-> IF via = "raf" THEN 1 - run.frame ELSE run.frame,
                      threw |-> FALSE]
           /\ ran' = TRUE

\* an effect without the test of line 36
EffectUnguarded ==
  /\ isPlaying => Len(rafQueue) < MaxRaf
  /\ updateDFT("effect", Closure, rafQueue)

\* the body of the effect: nothing without an analyser node, else updateDFT
Effect ==
  IF analyserNode
  THEN /\ isPlaying => Len(rafQueue) < MaxRaf
       /\ updateDFT("effect", Closure, rafQueue)
  ELSE /\ UNCHANGED <<cells, rafQueue, run, frozenStamp>>
       /\ ran' = FALSE

\* a pending effect runs before the next render
FlushEffect ==
  IF effectPending THEN Effect
  ELSE /\ UNCHANGED <<cells, rafQueue, run, frozenStamp>>
       /\ ran' = FALSE

(***************************************************************************)
(* The steps.  An exception that leaves the effect is caught by no error   *)
(* boundary: the tree is unmounted, and the hook takes no further step.    *)
(***************************************************************************)
Mounted == ~run.threw

(***************************************************************************)
(* SpectrumAnalyzer, which DFTVisualizer renders with the dftResults the   *)
(* hook returns.  The variable analyzer is null where the component is     *)
(* left out.                                                               *)
(***************************************************************************)
\* processFrequencyData in the mode "raw": the magnitudes of
\* dftResults.slice(0, sampleWindow)
processFrequencyData(results, N) ==
  IF results.len = 0 THEN [len |-> 0]
  ELSE [len |-> Min(results.len, N), from |-> results]

\* draw of the effect of SpectrumAnalyzer: the ref, the results it displays
\* and the number of bars it paints
draw(frozenDftResultsRef, playing, results, N) ==
  LET frozen == IF playing /\ results.len >= N THEN results
                ELSE frozenDftResultsRef
      displayResults == IF playing THEN results ELSE frozen
      processedMagnitudes == processFrequencyData(displayResults, N)
  IN  [frozenDftResultsRef |-> frozen,
       displayResults |-> displayResults,
       bars |-> IF processedMagnitudes.len >= N THEN N ELSE 0]

\* the commit of a step renders SpectrumAnalyzer, whose effect draws if
\* there is an analyser node; received is the dftResults prop of the last
\* render with isPlaying
render ==
  analyzer' =
    IF analyzer = null \/ ~analyserNode' THEN analyzer
    ELSE LET drawn == draw(analyzer.frozenDftResultsRef, isPlaying',
                           currentData'.dftResults, sampleWindow')
         IN  [frozenDftResultsRef |-> drawn.frozenDftResultsRef,
              displayResults |-> drawn.displayResults,
              bars |-> drawn.bars,
              received |-> IF isPlaying' THEN currentData'.dftResults
                           ELSE analyzer.received]

\* the passive effect of the last commit runs; its setFrozenData changes the
\* frozenData dependency
RunEffect ==
  /\ Mounted /\ effectPending
  /\ Effect
  /\ dirty' = IF analyserNode /\ isPlaying THEN {"frozenData"} ELSE {}
  /\ UNCHANGED <<props, signal, engine, player>>
  /\ render

\* the host delivers a frame to the oldest pending callback
Frame ==
  /\ Mounted /\ rafQueue # <<>>
  /\ updateDFT("raf", Head(rafQueue), Tail(rafQueue))
  /\ dirty' = dirty \cup {"frozenData"}
  /\ UNCHANGED <<props, signal, engine, player>>
  /\ render

\* initializeAudioContext: setAnalyserNode(analyser)
InitAudio ==
  /\ Mounted /\ ~analyserNode
  /\ FlushEffect
  /\ analyserNode' = TRUE
  /\ dirty' = {"analyserNode"}
  /\ UNCHANGED <<sampleWindow, selectedFrequencyBin, isPlaying, signal, engine, player>>
  /\ render

\* togglePlayPause while paused
Play ==
  /\ Mounted /\ analyserNode /\ ~isPlaying
  /\ FlushEffect
  /\ isPlaying' = TRUE
  /\ dirty' = {"isPlaying"}
  /\ UNCHANGED <<analyserNode, sampleWindow, selectedFrequencyBin, signal,
                 engine, player>>
  /\ render

\* togglePlayPause while playing
Pause ==
  /\ Mounted /\ isPlaying
  /\ FlushEffect
  /\ isPlaying' = FALSE
  /\ dirty' = IF effectPending THEN {"isPlaying", "frozenData"} ELSE {"isPlaying"}
  /\ UNCHANGED <<analyserNode, sampleWindow, selectedFrequencyBin, signal,
                 engine, player>>
  /\ render

\* the Sample Window input: setSampleWindow(Number(e.target.value))
SetSampleWindow(N) ==
  /\ Mounted /\ N # sampleWindow
  /\ FlushEffect
  /\ sampleWindow' = N
  /\ dirty' = IF effectPending /\ isPlaying THEN {"sampleWindow", "frozenData"}
              ELSE {"sampleWindow"}
  /\ UNCHANGED <<analyserNode, selectedFrequencyBin, isPlaying, signal, engine, player>>
  /\ render

\* onSelectFrequencyBin(k) of a bin of the current window
SetBin(k) ==
  /\ Mounted /\ k # selectedFrequencyBin /\ k < sampleWindow
  /\ FlushEffect
  /\ selectedFrequencyBin' = k
  /\ dirty' = IF effectPending /\ isPlaying THEN {"selectedFrequencyBin", "frozenData"}
              ELSE {"selectedFrequencyBin"}
  /\ UNCHANGED <<analyserNode, sampleWindow, isPlaying, signal, engine, player>>
  /\ render

\* the audio moves on: the analyser's buffers hold another signal
Audio(sig) ==
  /\ Mounted /\ analyserNode /\ sig # signal
  /\ signal' = sig
  /\ ran' = FALSE
  /\ UNCHANGED <<props, cells, dirty, rafQueue, run, frozenStamp, engine, player>>
  /\ render

Next ==
  \/ RunEffect
  \/ Frame
  \/ InitAudio
  \/ Play
  \/ Pause
  \/ \E N \in SampleWindows : SetSampleWindow(N)
  \/ \E k \in Bins : SetBin(k)
  \/ \E sig \in Signals : Audio(sig)

Spec == Init /\ [][Next]_vars

(***************************************************************************)
(* The tick loop under the host's scheduling: a callback that is pending   *)
(* is delivered a frame.  The windows are those in which currentSample     *)
(* wraps within MaxSample.                                                 *)
(***************************************************************************)
LiveWindows == {4, 8}

NextLive ==
  \/ RunEffect
  \/ Frame
  \/ InitAudio
  \/ Play
  \/ Pause
  \/ \E N \in LiveWindows : SetSampleWindow(N)
  \/ \E k \in Bins : SetBin(k)
  \/ \E sig \in Signals : Audio(sig)

SpecLive == Init /\ [][NextLive]_vars /\ WF_vars(Frame)

(***************************************************************************)
(* Single invocations of updateDFT, for every window of TickWindows: the   *)
(* hook is mounted with an analyser node and with any props.               *)
(***************************************************************************)
TickWindows == {4, 8, 1024, 1025, 2048}

InitTick ==
  /\ analyserNode = TRUE
  /\ sampleWindow \in TickWindows
  /\ selectedFrequencyBin \in Bins
  /\ isPlaying \in BOOLEAN
  /\ signal \in Signals
  /\ timeData = null
  /\ dftResults = NoResults
  /\ twiddleFactors = NoFactors
  /\ currentSample = 0
  /\ frozenData = null
  /\ dirty = {"mount"}
  /\ rafQueue = <<>>
  /\ run = [via |-> "none", cl |-> Closure, live |-> Closure, stamp |-> FALSE,
            frame |-> 0, threw |-> FALSE]
  /\ ran = FALSE
  /\ frozenStamp = StampOf(FALSE)
  /\ engine = null
  /\ player = null
  /\ analyzer = null

NextTick ==
  \/ RunEffect
  \/ Frame
  \/ \E sig \in Signals : Audio(sig)

SpecTick == InitTick /\ [][NextTick]_vars

(***************************************************************************)
(* The Sample Window input with the values that are not windows: 0, the    *)
(* Number of the emptied field, and a negative number that was typed.      *)
(***************************************************************************)
InvalidWindows == {-1, 0, 8}

NextInvalid ==
  \/ RunEffect
  \/ Frame
  \/ InitAudio
  \/ Play
  \/ Pause
  \/ \E N \in InvalidWindows : SetSampleWindow(N)
  \/ \E k \in Bins : SetBin(k)
  \/ \E sig \in Signals : Audio(sig)

SpecInvalid == Init /\ [][NextInvalid]_vars

(***************************************************************************)
(* A bin of the larger window is selected, and the window is made smaller. *)
(***************************************************************************)
ResizeBins == {0, 5}

NextResize ==
  \/ RunEffect
  \/ Frame
  \/ InitAudio
  \/ Play
  \/ Pause
  \/ \E N \in LiveWindows : SetSampleWindow(N)
  \/ \E k \in ResizeBins : SetBin(k)
  \/ \E sig \in Signals : Audio(sig)

SpecResize == Init /\ [][NextResize]_vars

(***************************************************************************)
(* The engine by itself: calculateDFT is called with a signal of any       *)
(* length, a bin and a maxN (0 for a call without maxN), next to the       *)
(* single invocations of updateDFT, which call it for every bin.           *)
(***************************************************************************)
EngineSignals == {"silence", "impulse", "square"}

EngineLengths == {1, 2, 3, 4, 8}

EngineBins == {0, 1, 2, 3}

EngineMaxN == {0, 1, 2, 4, 8, 16}

InitEngine ==
  \/ /\ InitTick
  \/ /\ analyserNode = FALSE
     /\ sampleWindow = 8
     /\ selectedFrequencyBin = 0
     /\ isPlaying = FALSE
     /\ signal = "silence"
     /\ timeData = null
     /\ dftResults = NoResults
     /\ twiddleFactors = NoFactors
     /\ currentSample = 0
     /\ frozenData = null
     /\ dirty = {"mount"}
     /\ rafQueue = <<>>
     /\ run = [via |-> "none", cl |-> Closure, live |-> Closure, stamp |-> FALSE,
               frame |-> 0, threw |-> FALSE]
     /\ ran = FALSE
     /\ frozenStamp = StampOf(FALSE)
     /\ \E sig \in EngineSignals, len \in EngineLengths,
           k \in EngineBins, maxN \in EngineMaxN :
          engine = [fn |-> "calculateDFT",
                    signal |-> WindowData(getFloatTimeDomainData(sig), len),
                    k |-> k, maxN |-> maxN, out |-> null]
     /\ player = null
     /\ analyzer = null

\* the call returns
CallDFT ==
  /\ engine # null /\ engine.fn = "calculateDFT" /\ engine.out = null
  /\ engine' = [engine EXCEPT
                  !.out = calculateDFT(engine.signal, engine.k, engine.maxN)]
  /\ UNCHANGED <<hook, player, analyzer>>

NextEngine ==
  \/ CallDFT
  \/ RunEffect
  \/ Frame
  \/ \E sig \in Signals : Audio(sig)

SpecEngine == InitEngine /\ [][NextEngine]_vars

(***************************************************************************)
(* The engine on windows that are given entry by entry, the empty window   *)
(* among them: calculateDFT for one bin, without maxN or with a maxN that  *)
(* is no length, and calculateFullDFT for all the bins.                    *)
(***************************************************************************)
\* a full DFT of the first half of the bins
calculateFullDFTHalf(samples) ==
  [len |-> (samples.len + 1) \div 2, signal |-> samples, maxN |-> 0]

\* calculateFullDFT(signal): for k < signal.length, push calculateDFT(signal, k)
calculateFullDFT(samples) ==
  [len |-> samples.len, signal |-> samples, maxN |-> 0]

SampleValues == {-1, 0, 2}

BinLengths == {0, 1, 2, 4}

BinWindows == UNION {[1..len -> SampleValues] : len \in BinLengths}

BinMaxN == {0, -1}

EngineCalls ==
  {[fn |-> "calculateDFT", signal |-> Float32Array(data), k |-> k,
    maxN |-> maxN, out |-> null] :
     data \in BinWindows, k \in EngineBins, maxN \in BinMaxN}
  \cup
  {[fn |-> "calculateFullDFT", signal |-> Float32Array(data), k |-> 0,
    maxN |-> 0, out |-> null] : data \in BinWindows}

\* the hook is mounted with an analyser node and a window of one sample
InitOne ==
  /\ analyserNode = TRUE
  /\ sampleWindow = 1
  /\ selectedFrequencyBin = 0
  /\ isPlaying \in BOOLEAN
  /\ signal \in {"silence", "square", "inverted"}
  /\ timeData = null
  /\ dftResults = NoResults
  /\ twiddleFactors = NoFactors
  /\ currentSample = 0
  /\ frozenData = null
  /\ dirty = {"mount"}
  /\ rafQueue = <<>>
  /\ run = [via |-> "none", cl |-> Closure, live |-> Closure, stamp |-> FALSE,
            frame |-> 0, threw |-> FALSE]
  /\ ran = FALSE
  /\ frozenStamp = StampOf(FALSE)
  /\ engine = null
  /\ player = null
  /\ analyzer = null

InitBins ==
  \/ /\ InitTick
  \/ /\ InitOne
  \/ /\ analyserNode = FALSE
     /\ sampleWindow = 8
     /\ selectedFrequencyBin = 0
     /\ isPlaying = FALSE
     /\ signal = "silence"
     /\ timeData = null
     /\ dftResults = NoResults
     /\ twiddleFactors = NoFactors
     /\ currentSample = 0
     /\ frozenData = null
     /\ dirty = {"mount"}
     /\ rafQueue = <<>>
     /\ run = [via |-> "none", cl |-> Closure, live |-> Closure, stamp |-> FALSE,
               frame |-> 0, threw |-> FALSE]
     /\ ran = FALSE
     /\ frozenStamp = StampOf(FALSE)
     /\ engine \in EngineCalls
     /\ player = null
     /\ analyzer = null

\* the call of calculateFullDFT returns
CallFullDFT ==
  /\ engine # null /\ engine.fn = "calculateFullDFT" /\ engine.out = null
  /\ engine' = [engine EXCEPT !.out = calculateFullDFT(engine.signal)]
  /\ UNCHANGED <<hook, player, analyzer>>

NextBins ==
  \/ CallDFT
  \/ CallFullDFT
  \/ RunEffect
  \/ Frame
  \/ \E sig \in Signals : Audio(sig)

SpecBins == InitBins /\ [][NextBins]_vars

(***************************************************************************)
(* The freeze discipline.                                                  *)
(***************************************************************************)
\* C1: after isPlaying went from true to false, the timeData, dftResults and
\* twiddleFactors that the hook returns are the snapshot of the last tick
\* that ran while playing, and no later step changes them while isPlaying
\* stays false, whatever the analyser's buffer holds by then (checked from
\* the moment the effect of the pause has run).
C1_FrozenServedUnchanged ==
  [][(~isPlaying /\ ~isPlaying' /\ frozenData # null /\ "isPlaying" \notin dirty)
       => currentData' = currentData]_vars

\* C2: the frozen snapshot is absent, or its three parts were stored by one
\* invocation of updateDFT and come from one captured window: the results
\* and the twiddle series are those of the window that is its timeData.
C2_SnapshotWhole ==
  \/ frozenData = null
  \/ /\ frozenStamp.timeData = frozenStamp.dftResults
     /\ frozenStamp.dftResults = frozenStamp.twiddleFactors
     /\ frozenData.dftResults =
          Results(frozenData.timeData, frozenData.timeData.len)
     /\ frozenData.twiddleFactors =
          Factors(frozenData.timeData, frozenData.timeData.len,
                  frozenData.twiddleFactors.k)

\* a snapshot exists while the live cells hold a later capture of another
\* signal and of another bin
C2_Witness ==
  /\ frozenData # null
  /\ ran /\ ~run.cl.isPlaying
  /\ timeData # frozenData.timeData.from
  /\ twiddleFactors.k # frozenData.twiddleFactors.k

\* C3: once the transport has paused, updateDFT is not invoked while
\* isPlaying is false, neither by a frame that was requested earlier nor by
\* the effect running again.
C3_NoTickWhilePaused == (ran /\ frozenData # null) => run.live.isPlaying

\* C4: every invocation of updateDFT while isPlaying is true captures the
\* analyser's buffer, computes the results and the twiddle series of the
\* currently selected bin from the current N-sample window of that capture,
\* stores them as the live cells and overwrites the frozen snapshot with
\* copies of them (checked once the effect has run for the current props).
C4_TickStoresCurrent ==
  (ran /\ run.live.isPlaying /\ dirty \subseteq {"frozenData"}) =>
    LET timeArray  == getFloatTimeDomainData(signal)
        windowData == WindowData(timeArray, run.live.sampleWindow)
    IN  /\ timeData = timeArray
        /\ dftResults = Results(windowData, run.live.sampleWindow)
        /\ twiddleFactors = Factors(windowData, run.live.sampleWindow,
                                    run.live.selectedFrequencyBin)
        /\ frozenData = FrozenOf(windowData, dftResults, twiddleFactors)

\* C5: at most one animation-frame callback of updateDFT is pending at any
\* time.
C5_OneLoop == Len(rafQueue) <= 1

(***************************************************************************)
(* The tick loop.                                                          *)
(***************************************************************************)
\* C6: while isPlaying stays true, after every invocation of updateDFT a
\* frame eventually runs updateDFT again, given that the host delivers a
\* frame to a pending callback.
C6_TickLoopContinues ==
  \A b \in {0, 1} :
    [](( isPlaying /\ run.via # "none" /\ run.cl.isPlaying /\ run.frame = b)
         => <>(~isPlaying \/ run.frame # b))

\* a frame ran updateDFT while playing, after an earlier frame
C6_Witness == isPlaying /\ ran /\ run.via = "raf" /\ run.frame = 0

\* C7: after selectedFrequencyBin changed while isPlaying is true, every
\* twiddle series that a tick stores, in the live cell and in the frozen
\* snapshot, is computed for the bin that is selected when the tick runs
\* (checked once the effect has run for the new bin).
C7_TicksUseSelectedBin ==
  (ran /\ run.live.isPlaying /\ "selectedFrequencyBin" \notin dirty) =>
    /\ twiddleFactors.k = run.live.selectedFrequencyBin
    /\ frozenData.twiddleFactors.k = run.live.selectedFrequencyBin

\* what the hook returns, with the current sample index
Returned ==
  [timeData |-> currentData.timeData, dftResults |-> currentData.dftResults,
   twiddleFactors |-> currentData.twiddleFactors,
   currentSample |-> currentSample]

C9_TicksUseCurrentWindow ==
  (ran /\ run.live.isPlaying /\ "sampleWindow" \notin dirty) =>
    /\ dftResults.signal.len = run.live.sampleWindow
    /\ dftResults.len = Min(run.live.sampleWindow, BinCap)
    /\ frozenData.dftResults.signal.len = run.live.sampleWindow
    /\ frozenData.dftResults.len = Min(run.live.sampleWindow, BinCap)

(***************************************************************************)
(* The result sequence.                                                    *)
(***************************************************************************)
\* the sum over lo <= n < hi of samples[n] times the twiddle factor of
\* (Neff, k, n), added by thirds
RECURSIVE BinSum(_, _, _, _, _)
BinSum(samples, k, Neff, lo, hi) ==
  IF hi <= lo THEN [real |-> Zero, imag |-> Zero]
  ELSE IF hi = lo + 1
  THEN LET w == getTwiddleFactor(Neff, k, lo)
       IN  [real |-> Term(Scale(WindowAt(samples, lo), w.real)),
            imag |-> Term(Scale(WindowAt(samples, lo), w.imag))]
  ELSE LET cut == lo + (hi - lo + 2) \div 3
       IN  AddSums(BinSum(samples, k, Neff, lo, cut),
                   BinSum(samples, k, Neff, cut, hi))

\* the bins that are looked at in a sequence of length len
ProbeBins(len) == {k \in {0, 1, len - 1} : 0 <= k /\ k < len}

\* C10: after an invocation of updateDFT with a sample window N of 4..2048,
\* the stored result sequence has min(N, 1024) entries, which is the number
\* of bins that were computed, and its entry k is the result of bin k over
\* that invocation's window.
C10_ResultLength ==
  (ran /\ run.cl.sampleWindow \in 4..2048) =>
    LET N          == run.cl.sampleWindow
        Neff       == Min(N, 1024)
        windowData == WindowData(getFloatTimeDomainData(signal), N)
    IN  /\ dftResults.len = Neff
        /\ dftResults.signal = windowData
        /\ \A k \in ProbeBins(dftResults.len) :
             ResultAt(dftResults, k) =
               BinSum(windowData, k, Neff, 0, Min(Neff, windowData.len))

\* an invocation with a window above the cap stored a sequence that is
\* shorter than the window, from a signal that is not silent
C10_Witness ==
  /\ ran /\ run.cl.sampleWindow > 1024
  /\ dftResults.len < run.cl.sampleWindow
  /\ signal = "square"

(***************************************************************************)
(* The resume.                                                             *)
(***************************************************************************)
\* the live cells, as the hook returns them
LiveData ==
  [timeData |-> timeData, dftResults |-> dftResults,
   twiddleFactors |-> twiddleFactors]

\* C11: when isPlaying goes from false to true with a snapshot present, the
\* hook goes on returning the snapshot: the render of the resume returns the
\* timeData, dftResults and twiddleFactors that were returned before it.
C11_ResumeServesSnapshot ==
  [][(~isPlaying /\ isPlaying' /\ frozenData # null)
       => currentData' = currentData]_vars

\* C11, amended: the resume does not clear the snapshot, which stays in
\* frozenData until an invocation of updateDFT whose closure has isPlaying
\* true overwrites it; from the render of the resume on the hook returns the
\* live cells, those of the latest invocation of updateDFT, and not the
\* snapshot.
C11_ResumeKeepsSnapshotServesLive ==
  [][/\ (~isPlaying /\ isPlaying')
          => /\ frozenData' = frozenData
             /\ currentData' = LiveData'
     /\ isPlaying' => currentData' = LiveData'
     /\ frozenData' # frozenData => (ran' /\ run'.cl.isPlaying)
    ]_vars

\* just resumed, no tick has run since, the snapshot is still there and the
\* results that the hook returns are not the ones of the snapshot
C11_Witness ==
  /\ isPlaying /\ dirty = {"isPlaying"}
  /\ frozenData # null
  /\ currentData.dftResults # frozenData.dftResults

(***************************************************************************)
(* Windows that are not windows.                                           *)
(***************************************************************************)
\* C12: an invocation of updateDFT with a sample window N <= 0 (the 0 of an
\* emptied input field, or a negative value) skips the computation: the
\* frozen snapshot and the live results and twiddle series keep their
\* values, the current sample index stays an integer that is at least 0,
\* and no exception leaves the invocation.
C12_InvalidWindowSkipped ==
  [][(ran' /\ run'.cl.sampleWindow <= 0)
       => /\ frozenData' = frozenData
          /\ dftResults' = dftResults
          /\ twiddleFactors' = twiddleFactors
          /\ currentSample' # NaN /\ currentSample' >= 0
          /\ ~run'.threw]_vars

(***************************************************************************)
(* Before the audio context is initialised.                                *)
(***************************************************************************)
\* C13: while there is no analyser node, updateDFT has not been invoked and
\* no frame is requested: the result sequence and the twiddle series that
\* the hook returns are empty and its timeData is null, whatever changes of
\* sampleWindow and selectedFrequencyBin have occurred.
C13_NothingWithoutAnalyser ==
  ~analyserNode =>
    /\ ~ran /\ run.via = "none"
    /\ rafQueue = <<>>
    /\ currentData = [timeData |-> null, dftResults |-> NoResults,
                      twiddleFactors |-> NoFactors]
    /\ currentSample = 0

\* without an analyser node, the effect has run for a changed window and a
\* changed bin
C13_Witness ==
  /\ ~analyserNode
  /\ sampleWindow # 8 /\ selectedFrequencyBin # 0
  /\ dirty = {}

(***************************************************************************)
(* The selected bin and the current sample index.                          *)
(***************************************************************************)
\* C14: in every reachable state selectedFrequencyBin is an integer k with
\* 0 <= k < N for the current sampleWindow N, and the bin an invocation of
\* updateDFT computes the twiddle series for is a bin of its window: a bin
\* that a smaller window leaves out of range is clamped before it is used.
C14_BinInRange ==
  /\ 0 <= selectedFrequencyBin /\ selectedFrequencyBin < sampleWindow
  /\ ran => (0 <= twiddleFactors.k /\ twiddleFactors.k < twiddleFactors.N)

\* C15: the current sample index starts at 0, is in every state an integer
\* of 0..N-1 for the current sampleWindow N, and every invocation of
\* updateDFT advances it by one, from N-1 to 0, also when sampleWindow has
\* changed.
C15_SampleIndexCycles ==
  /\ currentSample = 0
  /\ [][/\ currentSample' \in 0..(sampleWindow' - 1)
        /\ ran' => currentSample' = (currentSample + 1) % sampleWindow
        /\ ~ran' => currentSample' = currentSample]_vars

(***************************************************************************)
(* The window and the twiddle series of one invocation.                    *)
(***************************************************************************)
\* C16: the window an invocation of updateDFT computes on is the prefix of
\* length N of the buffer it captured: it has N entries, and for every i
\* below N the buffer has a sample i and entry i of the window is that
\* sample, for the windows N of 4..2048.
C16_WindowIsPrefix ==
  (ran /\ run.cl.sampleWindow \in 4..2048) =>
    LET windowData == dftResults.signal
    IN  /\ windowData.len = run.cl.sampleWindow
        /\ \A i \in 0..(windowData.len - 1) :
             /\ i < timeData.len
             /\ WindowAt(windowData, i) = TimeAt(timeData, i)

\* C16, amended: the window has N entries; entry i is sample i of the buffer
\* captured by the same invocation for i below the 1024 samples of the
\* buffer, and 0 for the entries from 1024 on: for N above 1024 the window
\* is the whole buffer followed by N - 1024 zeros.
C16_WindowIsPaddedPrefix ==
  (ran /\ run.cl.sampleWindow \in 4..2048) =>
    LET windowData == dftResults.signal
    IN  /\ windowData.len = run.cl.sampleWindow
        /\ timeData.len = 1024 /\ timeData.sig = signal
        /\ \A i \in 0..(windowData.len - 1) :
             WindowAt(windowData, i) = IF i < 1024 THEN Sample(signal, i) ELSE 0

\* an invocation computed on a window that is longer than the buffer it
\* captured, of a signal that is not 0 anywhere
C16_Witness ==
  /\ ran /\ signal = "square"
  /\ dftResults.signal.len > timeData.len
  /\ dftResults.signal.from = timeData

\* the twiddle factor of (N, k, n) when k*n/N is a whole number of quarter
\* turns: 1, -i, -1 or i
QuarterTwiddle(N, k, n) ==
  LET q == ((4 * k * n) \div N) % 4
  IN  [real |-> Whole(CASE q = 0 -> 1 [] q = 1 -> 0 [] q = 2 -> -1 [] q = 3 -> 0),
       imag |-> Whole(CASE q = 0 -> 0 [] q = 1 -> -1 [] q = 2 -> 0 [] q = 3 -> 1)]

\* C17: after an invocation of updateDFT with window N and bin k, the
\* stored twiddle series has min(N, 1024) entries in the order of n, and
\* entry n holds the twiddle factor of (N, k, n) for the full transform
\* length N (1, -i, -1 or i where k*n/N is a number of quarter turns, which
\* is every entry for N = 4), together with the product of sample n of the
\* invocation's window and that factor, and with the magnitude of sample n.
C17_TwiddleSeries ==
  (ran /\ run.cl.sampleWindow \in 4..2048) =>
    LET N          == run.cl.sampleWindow
        k          == run.cl.selectedFrequencyBin
        windowData == WindowData(getFloatTimeDomainData(signal), N)
    IN  /\ twiddleFactors.len = Min(N, 1024)
        /\ \A n \in 0..(twiddleFactors.len - 1) :
             LET entry == FactorAt(twiddleFactors, n)
                 w     == [real |-> entry.real, imag |-> entry.imag]
             IN  /\ w = getTwiddleFactor(N, k, n)
                 /\ (4 * k * n) % N = 0 => w = QuarterTwiddle(N, k, n)
                 /\ entry.result =
                      [real |-> Scale(WindowAt(windowData, n), w.real),
                       imag |-> Scale(WindowAt(windowData, n), w.imag)]
                 /\ entry.amplitude = Abs(WindowAt(windowData, n))

\* an invocation stored the series of bin 1 of a window above the cap, whose
\* entry 512 is a quarter turn of the full length and a half turn of the
\* capped length
C17_Witness ==
  /\ ran /\ run.cl.sampleWindow = 2048 /\ run.cl.selectedFrequencyBin = 1
  /\ twiddleFactors.len = 1024
  /\ FactorAt(twiddleFactors, 512).imag = Whole(-1)

\* C18: in every entry of the stored twiddle series the result is the
\* amplitude that the entry reports times the entry's twiddle factor, real
\* part and imaginary part, whatever the sign of the sample.
C18_ResultIsAmplitudeTimesTwiddle ==
  ran =>
    \A n \in 0..(twiddleFactors.len - 1) :
      LET entry == FactorAt(twiddleFactors, n)
      IN  /\ entry.result.real = Scale(entry.amplitude, entry.real)
          /\ entry.result.imag = Scale(entry.amplitude, entry.imag)

\* C18, amended: the result of an entry is the sample times the twiddle
\* factor, and the amplitude that the entry reports is the magnitude of the
\* sample: the result is the reported amplitude times the twiddle factor
\* for a sample that is not negative, and minus that product for a negative
\* sample.
C18_ResultIsSampleTimesTwiddle ==
  ran =>
    \A n \in 0..(twiddleFactors.len - 1) :
      LET entry  == FactorAt(twiddleFactors, n)
          sample == WindowAt(twiddleFactors.window, n)
          sign   == IF sample < 0 THEN -1 ELSE 1
      IN  /\ twiddleFactors.window.from.sig = signal
          /\ entry.amplitude = sign * sample
          /\ entry.result.real = Scale(sign * entry.amplitude, entry.real)
          /\ entry.result.imag = Scale(sign * entry.amplitude, entry.imag)

\* the series of bin 0 was stored for a signal whose sample 1 is -1: the
\* entry reports the amplitude 1 and the twiddle factor 1, and its result
\* is -1
C18_Witness ==
  /\ ran /\ run.cl.selectedFrequencyBin = 0
  /\ WindowAt(twiddleFactors.window, 1) = -1
  /\ FactorAt(twiddleFactors, 1).amplitude = 1
  /\ FactorAt(twiddleFactors, 1).real = Whole(1)
  /\ FactorAt(twiddleFactors, 1).result.real = Whole(-1)

\* the sums of the real and of the imaginary parts of the results of the
\* entries lo <= n < hi of a twiddle series, added by halves
RECURSIVE FactorSum(_, _, _)
FactorSum(factors, lo, hi) ==
  IF hi <= lo THEN [real |-> Zero, imag |-> Zero]
  ELSE IF hi = lo + 1
  THEN [real |-> Term(FactorAt(factors, lo).result.real),
        imag |-> Term(FactorAt(factors, lo).result.imag)]
  ELSE LET mid == (lo + hi) \div 2
       IN  AddSums(FactorSum(factors, lo, mid), FactorSum(factors, mid, hi))

\* C19: after an invocation of updateDFT with a window N of 4..2048 and a
\* selected bin k below the number of stored results, the results of the
\* entries of the stored twiddle series add up, real parts and imaginary
\* parts, to the stored result of bin k.
C19_SeriesSumsToBin ==
  ( /\ ran /\ run.cl.sampleWindow \in 4..2048
    /\ run.cl.selectedFrequencyBin < dftResults.len ) =>
    FactorSum(twiddleFactors, 0, twiddleFactors.len) =
      ResultAt(dftResults, run.cl.selectedFrequencyBin)

(***************************************************************************)
(* The engine.                                                             *)
(***************************************************************************)
\* C20: calculateDFT(samples, k, Neff) returns the sum over n from 0 to
\* min(Neff, samples.length) - 1 of samples[n] times the twiddle factor of
\* (Neff, k, n), with Neff = samples.length in a call without the third
\* argument, the real parts and the imaginary parts each in a sum of its
\* own (so that an impulse with Neff within the signal gives 1 + 0i in
\* every bin); and the call for bin k of an invocation of updateDFT has
\* the window of the invocation and Neff = min(N, 1024), and sums
\* min(N, 1024) terms.
C20_CalculateDFT ==
  /\ (engine # null /\ engine.out # null) =>
       LET samples == engine.signal
           Neff    == IF engine.maxN = 0 THEN samples.len ELSE engine.maxN
           terms   == Min(Neff, samples.len)
       IN  /\ engine.out = BinSum(samples, engine.k, Neff, 0, terms)
           /\ samples.from.sig = "impulse" =>
                engine.out = [real |-> Term(Whole(1)), imag |-> Zero]
           /\ samples.from.sig = "silence" =>
                engine.out = [real |-> Zero, imag |-> Zero]
  /\ (ran /\ run.cl.sampleWindow \in 4..2048) =>
       LET N          == run.cl.sampleWindow
           Neff       == Min(N, 1024)
           windowData == WindowData(getFloatTimeDomainData(signal), N)
       IN  /\ dftResults.signal = windowData
           /\ dftResults.maxN = Neff
           /\ Min(dftResults.maxN, dftResults.signal.len) = Neff
           /\ ResultAt(dftResults, 1) = BinSum(windowData, 1, Neff, 0, Neff)

\* a call with a maxN below the length of a signal that is not silent has
\* returned, and so has a call without maxN
C20_Witness ==
  /\ engine # null /\ engine.out # null
  /\ engine.signal.from.sig = "square"
  /\ \/ engine.maxN # 0 /\ engine.maxN < engine.signal.len
     \/ engine.maxN = 0 /\ engine.signal.len = 3

\* the failure that a call on a malformed window is specified to end in
InvalidWindow == [failure |-> "InvalidWindow"]

\* C21: a call of calculateDFT or calculateFullDFT with an empty window, or
\* with an effective length N <= 0, ends in the failure InvalidWindow and
\* returns no numeric result.
C21_MalformedFails ==
  ( /\ engine # null /\ engine.out # null
    /\ \/ engine.signal.len = 0
       \/ engine.maxN < 0 ) =>
    engine.out = InvalidWindow

\* the formal sum of the opposite number
Neg(S) == [g \in DOMAIN S |-> -S[g]]

\* C22: for a window of N real samples and a bin k with 0 < k < N,
\* calculateDFT(samples, k) is the complex conjugate of
\* calculateDFT(samples, N - k): the real parts are equal and the imaginary
\* parts are opposite (windows of the lengths 2 and 4 with samples of
\* SampleValues).
C22_ConjugateSymmetry ==
  ( /\ engine # null /\ engine.out # null
    /\ engine.fn = "calculateDFT" /\ engine.maxN = 0
    /\ 0 < engine.k /\ engine.k < engine.signal.len ) =>
    LET mirror == calculateDFT(engine.signal, engine.signal.len - engine.k, 0)
    IN  /\ engine.out.real = mirror.real
        /\ engine.out.imag = Neg(mirror.imag)

\* bin 1 of a window of 4 samples was computed and has an imaginary part
\* that is not 0
C22_Witness ==
  /\ engine # null /\ engine.out # null
  /\ engine.fn = "calculateDFT" /\ engine.maxN = 0
  /\ engine.signal.len = 4 /\ engine.k = 1
  /\ engine.out.imag # Zero

\* a formal sum is an integer
IsWhole(S) == DOMAIN S \subseteq {<<0, 1>>}

\* real^2 + imag^2 of the bins k and above of a result sequence
RECURSIVE EnergyOfBins(_, _)
EnergyOfBins(results, k) ==
  IF k >= results.len THEN 0
  ELSE LET X == ResultAt(results, k)
       IN  WholePart(X.real) * WholePart(X.real)
             + WholePart(X.imag) * WholePart(X.imag)
             + EnergyOfBins(results, k + 1)

\* the sum of the squares of the samples n and above of a window
RECURSIVE EnergyOfSamples(_, _)
EnergyOfSamples(samples, n) ==
  IF n >= samples.len THEN 0
  ELSE WindowAt(samples, n) * WindowAt(samples, n)
         + EnergyOfSamples(samples, n + 1)

\* C23: for a window of N real samples, the squared magnitudes
\* real^2 + imag^2 of the N bins of calculateFullDFT add up to N times the
\* sum of the squared samples: their sum divided by N is the sum of the
\* squared samples (windows of the lengths 1, 2 and 4 with samples of
\* SampleValues, where every bin has whole parts).
C23_Parseval ==
  ( /\ engine # null /\ engine.out # null
    /\ engine.fn = "calculateFullDFT"
    /\ engine.signal.len \in {1, 2, 4} ) =>
    LET N == engine.signal.len
    IN  /\ engine.out.len = N
        /\ \A k \in 0..(N - 1) :
             /\ IsWhole(ResultAt(engine.out, k).real)
             /\ IsWhole(ResultAt(engine.out, k).imag)
        /\ EnergyOfBins(engine.out, 0) % N = 0
        /\ EnergyOfBins(engine.out, 0) \div N = EnergyOfSamples(engine.signal, 0)

\* the full DFT of a window of 4 samples of both signs was computed
C23_Witness ==
  /\ engine # null /\ engine.out # null
  /\ engine.fn = "calculateFullDFT"
  /\ engine.signal.len = 4
  /\ WindowAt(engine.signal, 0) = -1 /\ WindowAt(engine.signal, 1) = 2
  /\ EnergyOfSamples(engine.signal, 0) > 5

\* the magnitude and the phase of the only bin of a window of one sample s
OneBin(s, phaseOf) ==
  /\ ( /\ engine # null /\ engine.out # null
       /\ engine.fn = "calculateFullDFT" /\ engine.signal.len = 1 ) =>
       /\ engine.out.len = 1
       /\ getMagnitude(ResultAt(engine.out, 0)) =
            [whole |-> Abs(s), under |-> 1]
       /\ getPhase(ResultAt(engine.out, 0)) = [deg |-> phaseOf]
  /\ (ran /\ run.cl.sampleWindow = 1) =>
       /\ dftResults.len = 1
       /\ DFTResultAt(dftResults, 0).magnitude = [whole |-> Abs(s), under |-> 1]
       /\ DFTResultAt(dftResults, 0).phase = [deg |-> phaseOf]

\* the sample of the window of one sample that was computed on
OneSample ==
  IF engine # null THEN WindowAt(engine.signal, 0)
  ELSE WindowAt(WindowData(getFloatTimeDomainData(signal), 1), 0)

\* C24: for a window of one sample s, positive, zero or negative, the
\* spectrum has one bin, whose magnitude is |s| and whose phase is 0.
C24_OneSamplePhaseZero == OneBin(OneSample, 0)

\* C24, amended: for a window of one sample s the spectrum has one bin,
\* whose magnitude is |s|, and whose phase is 0 for s >= 0 and 180 degrees
\* for s < 0.
C24_OneSamplePhaseOfSign ==
  OneBin(OneSample, IF OneSample >= 0 THEN 0 ELSE 180)

\* the spectrum of a window of one negative sample was computed, by the
\* engine or by the hook
C24_Witness ==
  /\ OneSample < 0
  /\ \/ /\ engine # null /\ engine.out # null
        /\ engine.fn = "calculateFullDFT" /\ engine.signal.len = 1
     \/ /\ ran /\ run.cl.sampleWindow = 1
        /\ DFTResultAt(dftResults, 0).phase = [deg |-> 180]

(***************************************************************************)
(* useAudioProcessor.  Times are whole seconds.  A source is playing from  *)
(* its start until it is stopped or has played its buffer to the end; the  *)
(* audio context then dispatches its ended event, which calls the onended  *)
(* handler that was set when it was started.                               *)
(***************************************************************************)
MaxClock == 3

MaxSources == 3

\* buffer.duration of the buffers that are loaded
Durations == {3}

\* the time positions of the seeks
SeekPositions == {-1, 2, 5}

Max(a, b) == IF a > b THEN a ELSE b

\* Math.max(lo, Math.min(x, hi))
Clamp(x, lo, hi) == Max(lo, Min(x, hi))

\* (position / duration) * 100, as a fraction in lowest terms
Percent(position, duration) ==
  LET g == Gcd(position * 100, duration)
  IN  <<(position * 100) \div g, duration \div g>>

\* useState<AudioBufferSourceNode | null>(null)
NoSource == 0

\* no pause and no seek is being followed
NoHold == [op |-> "none", pos |-> 0, progress |-> <<0, 1>>, source |-> NoSource]

\* the useState initial values; no source was created, no loop started
InitPlayer ==
  /\ analyserNode = FALSE
  /\ sampleWindow = 8
  /\ selectedFrequencyBin = 0
  /\ isPlaying = FALSE
  /\ signal = "silence"
  /\ timeData = null
  /\ dftResults = NoResults
  /\ twiddleFactors = NoFactors
  /\ currentSample = 0
  /\ frozenData = null
  /\ dirty = {"mount"}
  /\ rafQueue = <<>>
  /\ run = [via |-> "none", cl |-> Closure, live |-> Closure, stamp |-> FALSE,
            frame |-> 0, threw |-> FALSE]
  /\ ran = FALSE
  /\ frozenStamp = StampOf(FALSE)
  /\ engine = null
  /\ analyzer = null
  /\ player = [audioContext |-> FALSE, analyserNode |-> FALSE,
               audioBuffer |-> null, sourceNode |-> NoSource,
               isPlaying |-> FALSE, currentTime |-> 0, duration |-> 0,
               playbackProgress |-> <<0, 1>>, audioStartTime |-> 0,
               playbackOffset |-> 0,
               clock |-> 0,      \* audioContext.currentTime
               sources |-> <<>>, \* the sources created, by their number
               loops |-> <<>>,   \* the closures of the updateTime loops
               since |-> NoHold, \* the pause or the seek that is followed
               last |-> "mount", arg |-> 0]

\* sourceNode.stop()
stop(sources, node) ==
  IF node = NoSource THEN sources
  ELSE [sources EXCEPT ![node].state = IF @ = "playing" THEN "stopped" ELSE @]

\* createBufferSource(), source.buffer = buffer, source.start(0, offset)
start(sources, buffer, offset, now) ==
  Append(sources, [state |-> "playing", offset |-> offset, startedAt |-> now,
                   duration |-> buffer.duration])

\* updateTime with the values its closure holds, in which isPlaying is true
updateTime(p, loop) ==
  IF loop.duration > 0
  THEN LET currentPos == loop.playbackOffset + (p.clock - loop.audioStartTime)
           clampedPos == Clamp(currentPos, 0, loop.duration)
       IN  [p EXCEPT !.currentTime = clampedPos,
                     !.playbackProgress = Percent(clampedPos, loop.duration)]
  ELSE p

\* the dependencies of the effect
Deps(p) ==
  <<p.isPlaying, p.audioContext, p.analyserNode, p.duration, p.audioStartTime,
    p.playbackOffset>>

\* the effect after the commit that leads from p to q: it has no cleanup, so
\* the loops it started before go on
updateTimeEffect(p, q) ==
  IF Deps(p) = Deps(q) THEN q
  ELSE IF ~q.isPlaying \/ ~q.audioContext \/ ~q.analyserNode THEN q
  ELSE LET loop == [audioStartTime |-> q.audioStartTime,
                    playbackOffset |-> q.playbackOffset,
                    duration |-> q.duration]
       IN  [updateTime(q, loop) EXCEPT !.loops = Append(q.loops, loop)]

\* initializeAudioContext
initializeAudioContext(p) ==
  [p EXCEPT !.audioContext = TRUE, !.analyserNode = TRUE,
            !.last = "initializeAudioContext", !.arg = 0]

\* the pause branch of togglePlayPause
pause(p) ==
  [p EXCEPT !.sources = stop(@, p.sourceNode),
            !.sourceNode = NoSource,
            !.isPlaying = FALSE,
            !.since = [op |-> "pause", pos |-> p.currentTime,
                       progress |-> p.playbackProgress, source |-> NoSource],
            !.last = "pause", !.arg = 0]

\* the play branch of togglePlayPause
play(p) ==
  LET startTime == Clamp(p.currentTime, 0, p.audioBuffer.duration)
      atEnd == startTime >= p.audioBuffer.duration
      offset == IF atEnd THEN 0 ELSE startTime
  IN  [p EXCEPT !.currentTime = IF atEnd THEN 0 ELSE @,
                !.playbackProgress = IF atEnd THEN <<0, 1>> ELSE @,
                !.playbackOffset = offset,
                !.audioStartTime = p.clock,
                !.sources = start(@, p.audioBuffer, offset, p.clock),
                !.sourceNode = Len(p.sources) + 1,
                !.isPlaying = TRUE,
                !.since = NoHold,
                !.last = "play", !.arg = 0]

togglePlayPause ==
  /\ player # null
  /\ IF ~player.audioContext THEN player' = initializeAudioContext(player)
     ELSE /\ player.audioBuffer # null /\ player.analyserNode
          /\ IF player.isPlaying THEN player' = pause(player)
             ELSE /\ Len(player.sources) < MaxSources
                  /\ player' = updateTimeEffect(player, play(player))
  /\ UNCHANGED <<hook, engine, analyzer>>

seekTo(timePosition) ==
  /\ player # null /\ player.audioBuffer # null
  /\ LET buffer == player.audioBuffer
         clampedPosition == Clamp(timePosition, 0, buffer.duration)
         restart == player.isPlaying /\ player.audioContext /\ player.analyserNode
         stopped == stop(player.sources, player.sourceNode)
         source == Len(player.sources) + 1
     IN  /\ restart => Len(player.sources) < MaxSources
         /\ player' = updateTimeEffect(player,
              [player EXCEPT
                 !.sources = IF restart
                             THEN start(stopped, buffer, clampedPosition, player.clock)
                             ELSE stopped,
                 !.sourceNode = IF restart THEN source ELSE NoSource,
                 !.currentTime = clampedPosition,
                 !.playbackProgress = IF buffer.duration > 0
                                      THEN Percent(clampedPosition, buffer.duration)
                                      ELSE <<0, 1>>,
                 !.playbackOffset = clampedPosition,
                 !.audioStartTime = IF restart THEN player.clock ELSE @,
                 !.since = IF restart
                           THEN [op |-> "seek", pos |-> clampedPosition,
                                 progress |-> <<0, 1>>, source |-> source]
                           ELSE NoHold,
                 !.last = "seekTo", !.arg = timePosition])
  /\ UNCHANGED <<hook, engine, analyzer>>

stopAudio ==
  /\ player # null
  /\ player' = [player EXCEPT !.sources = stop(@, player.sourceNode),
                              !.sourceNode = NoSource,
                              !.isPlaying = FALSE,
                              !.currentTime = 0,
                              !.playbackProgress = <<0, 1>>,
                              !.playbackOffset = 0,
                              !.since = NoHold,
                              !.last = "stopAudio", !.arg = 0]
  /\ UNCHANGED <<hook, engine, analyzer>>

\* loadExampleAudio with a buffer it generates: stopExistingAudio, then the
\* new buffer and the reset of the playback state
loadExampleAudio(seconds) ==
  /\ player # null
  /\ IF ~player.audioContext THEN player' = initializeAudioContext(player)
     ELSE player' = updateTimeEffect(player,
            [player EXCEPT !.sources = stop(@, player.sourceNode),
                           !.sourceNode = NoSource,
                           !.audioBuffer = [duration |-> seconds],
                           !.duration = seconds,
                           !.isPlaying = FALSE,
                           !.currentTime = 0,
                           !.playbackProgress = <<0, 1>>,
                           !.playbackOffset = 0,
                           !.since = NoHold,
                           !.last = "load", !.arg = 0])
  /\ UNCHANGED <<hook, engine, analyzer>>

\* the source has played to the end of its buffer
playedOut(p, s) ==
  p.clock >= p.sources[s].startedAt + (p.sources[s].duration - p.sources[s].offset)

\* the ended event of a source that was stopped or that played out: its
\* onended handler
ended(s) ==
  /\ player # null /\ s \in 1..Len(player.sources)
  /\ \/ player.sources[s].state = "stopped"
     \/ player.sources[s].state = "playing" /\ playedOut(player, s)
  /\ player' = [player EXCEPT !.sources[s].state = "ended",
                              !.isPlaying = FALSE,
                              !.sourceNode = NoSource,
                              !.currentTime = 0,
                              !.playbackProgress = <<0, 1>>,
                              !.playbackOffset = 0,
                              !.since = IF @.op = "seek" /\ @.source = s
                                        THEN NoHold ELSE @,
                              !.last = "ended", !.arg = s]
  /\ UNCHANGED <<hook, engine, analyzer>>

\* an animation frame: every loop's callback runs, in the order in which
\* the loops were started, and the setCurrentTime of the last one is the
\* one the commit keeps
updateTimeFrame ==
  /\ player # null /\ player.loops # <<>>
  /\ player' = [updateTime(player, player.loops[Len(player.loops)])
                  EXCEPT !.last = "frame", !.arg = 0]
  /\ UNCHANGED <<hook, engine, analyzer>>

\* audioContext.currentTime advances; a source that played out has ended
Tick ==
  /\ player # null /\ player.audioContext /\ player.clock < MaxClock
  /\ \A s \in 1..Len(player.sources) :
       player.sources[s].state = "playing" => ~playedOut(player, s)
  /\ player' = [player EXCEPT !.clock = @ + 1, !.last = "tick", !.arg = 0]
  /\ UNCHANGED <<hook, engine, analyzer>>

NextPlayer ==
  \/ togglePlayPause
  \/ \E t \in SeekPositions : seekTo(t)
  \/ stopAudio
  \/ \E seconds \in Durations : loadExampleAudio(seconds)
  \/ \E s \in 1..MaxSources : ended(s)
  \/ updateTimeFrame
  \/ Tick

SpecPlayer == InitPlayer /\ [][NextPlayer]_vars

\* the entry of a bin that is 0: parts 0, magnitude 0, phase 0
ZeroBin ==
  [real |-> Zero, imag |-> Zero,
   magnitude |-> [whole |-> 0, under |-> 1], phase |-> [deg |-> 0]]

\* a complex number with its magnitude and its phase
Polar(complex) ==
  [real |-> complex.real, imag |-> complex.imag,
   magnitude |-> getMagnitude(complex), phase |-> getPhase(complex)]

\* the bins that are looked at: all of a short sequence
BinsOf(len) == IF len <= 8 THEN 0..(len - 1) ELSE ProbeBins(len)

\* C25: for a window of N samples that are all 0, every DFT result has the
\* real part 0, the imaginary part 0, the magnitude 0 and the phase 0, and
\* every result of the twiddle series is (0, 0): for the engine on the
\* windows of 1, 2 and 4 zeros, and for the hook on a silent buffer with
\* the windows 1, 4, 8, 1024, 1025 and 2048.
C25_ZeroWindow ==
  /\ ( /\ engine # null /\ engine.out # null /\ engine.signal.len >= 1
       /\ \A n \in 0..(engine.signal.len - 1) : WindowAt(engine.signal, n) = 0 ) =>
       IF engine.fn = "calculateDFT" THEN Polar(engine.out) = ZeroBin
       ELSE /\ engine.out.len = engine.signal.len
            /\ \A k \in 0..(engine.out.len - 1) :
                 Polar(ResultAt(engine.out, k)) = ZeroBin
  /\ (ran /\ signal = "silence") =>
       /\ dftResults.len = Min(run.cl.sampleWindow, 1024)
       /\ \A k \in BinsOf(dftResults.len) : DFTResultAt(dftResults, k) = ZeroBin
       /\ twiddleFactors.len = Min(run.cl.sampleWindow, 1024)
       /\ \A n \in 0..(twiddleFactors.len - 1) :
            FactorAt(twiddleFactors, n).result =
              [real |-> Whole(0), imag |-> Whole(0)]

\* the hook computed on a silent buffer with a window above the cap, or the
\* engine computed all the bins of a window of 4 zeros
C25_Witness ==
  \/ /\ ran /\ signal = "silence" /\ run.cl.sampleWindow = 2048
     /\ run.cl.selectedFrequencyBin = 1
  \/ /\ engine # null /\ engine.out # null
     /\ engine.fn = "calculateFullDFT" /\ engine.signal.len = 4
     /\ \A n \in 0..3 : WindowAt(engine.signal, n) = 0

\* C26: after togglePlayPause has paused, currentTime and playbackProgress
\* stay at the position of the moment of the pause while no seekTo, stopAudio
\* or load is called (no ended handler and no animation frame changes
\* them), and the next togglePlayPause starts the new source at that
\* position.
C26_PausedPositionHeld ==
  /\ [](player.since.op = "pause" =>
          /\ ~player.isPlaying
          /\ player.currentTime = player.since.pos
          /\ player.playbackProgress = player.since.progress)
  /\ [][(player.since.op = "pause" /\ player'.last = "play") =>
          player'.sources[player'.sourceNode].offset = player.since.pos]_vars

\* C27: seekTo(t) while playing stops the old source and starts a new one at
\* t clamped to [0, duration]; afterwards isPlaying is true, sourceNode
\* refers to the new source and currentTime is the clamped position, and
\* isPlaying and sourceNode stay so until the new source ends by itself or
\* the user pauses, stops or seeks again.
C27_SeekRestarts ==
  /\ [][(player.isPlaying /\ player'.last = "seekTo" /\ player' # player) =>
          LET clamped == Clamp(player'.arg, 0, player.duration)
              source == player'.sourceNode
          IN  /\ player'.isPlaying
              /\ source = Len(player.sources) + 1
              /\ player'.sources[source].state = "playing"
              /\ player'.sources[source].offset = clamped
              /\ player'.currentTime = clamped
              /\ \A s \in 1..Len(player.sources) :
                   player'.sources[s].state # "playing"]_vars
  /\ [](player.since.op = "seek" =>
          /\ player.isPlaying
          /\ player.sourceNode = player.since.source
          /\ player.sources[player.since.source].state = "playing")

\* the sources that were started and not yet stopped
Running ==
  {s \in 1..Len(player.sources) : player.sources[s].state = "playing"}

\* C28: in every reachable state of useAudioProcessor isPlaying is true
\* exactly when one started and not yet stopped source exists and sourceNode
\* refers to it: no source runs while isPlaying is false, and never more
\* than one source runs.
C28_OneSourceIffPlaying ==
  player # null =>
    /\ Cardinality(Running) <= 1
    /\ player.isPlaying <=> (Running # {} /\ player.sourceNode \in Running)
    /\ ~player.isPlaying => Running = {}

(***************************************************************************)
(* DFTVisualizer with SpectrumAnalyzer: the hook's steps, each of which    *)
(* renders the component.                                                  *)
(***************************************************************************)
\* useRef([]) of frozenDftResultsRef; nothing was drawn
InitDraw ==
  /\ analyserNode = FALSE
  /\ sampleWindow = 8
  /\ selectedFrequencyBin = 0
  /\ isPlaying = FALSE
  /\ signal = "silence"
  /\ timeData = null
  /\ dftResults = NoResults
  /\ twiddleFactors = NoFactors
  /\ currentSample = 0
  /\ frozenData = null
  /\ dirty = {"mount"}
  /\ rafQueue = <<>>
  /\ run = [via |-> "none", cl |-> Closure, live |-> Closure, stamp |-> FALSE,
            frame |-> 0, threw |-> FALSE]
  /\ ran = FALSE
  /\ frozenStamp = StampOf(FALSE)
  /\ engine = null
  /\ player = null
  /\ analyzer = [frozenDftResultsRef |-> NoResults, displayResults |-> NoResults,
                 bars |-> 0, received |-> NoResults]

SpecDraw == InitDraw /\ [][Next]_vars

\* C29: while paused SpectrumAnalyzer draws the DFT results it last received
\* while playing, for every sampleWindow N of 4..2048, also for N > 1024,
\* where the results it receives are fewer than N; while playing it draws
\* the live results it receives.  To draw results is to display them and,
\* if they are the results of a window of N samples, to paint their bars.
Draws(results) ==
  /\ analyzer.displayResults = results
  /\ results.len = Min(sampleWindow, BinCap) => analyzer.bars > 0

C29_DrawsFrozenOrLive ==
  (analyzer # null /\ analyserNode) =>
    /\ (isPlaying /\ currentData.dftResults.len > 0) =>
         Draws(currentData.dftResults)
    /\ (~isPlaying /\ analyzer.received.len > 0) =>
         Draws(analyzer.received)

(***************************************************************************)
(* SummationSection, which DFTVisualizer renders with the dftResults the   *)
(* hook returns and with onSelectFrequencyBin = setSelectedFrequencyBin.   *)
(***************************************************************************)
\* the bins that are selected
SelectBins == {0, 1, 1023, 1024}

\* parseInt of the jump-to-bin input
JumpInputs == {-1, 1, 1023, 1024}

INITIAL_LOAD_COUNT == 16

\* a click on the card of one of the results, or of one of the placeholders
\* that are shown while there are no results
cardClick(k) ==
  /\ k < (IF currentData.dftResults.len > 0 THEN currentData.dftResults.len
          ELSE Min(sampleWindow, INITIAL_LOAD_COUNT))
  /\ SetBin(k)

\* the button to the left, disabled at bin 0
previousBin ==
  LET newBin == Max(0, selectedFrequencyBin - 1)
  IN  /\ ~(selectedFrequencyBin <= 0)
      /\ newBin \in SelectBins
      /\ SetBin(newBin)

\* the button to the right, disabled at bin sampleWindow - 1
nextBin ==
  LET newBin == Min(sampleWindow - 1, selectedFrequencyBin + 1)
  IN  /\ ~(selectedFrequencyBin >= sampleWindow - 1)
      /\ newBin \in SelectBins
      /\ SetBin(newBin)

handleJumpToFreqBin(binNum) ==
  /\ binNum >= 0 /\ binNum < sampleWindow
  /\ SetBin(binNum)

NextSelect ==
  \/ RunEffect
  \/ Frame
  \/ InitAudio
  \/ Play
  \/ Pause
  \/ \E N \in SampleWindows : SetSampleWindow(N)
  \/ \E k \in SelectBins : cardClick(k)
  \/ previousBin
  \/ nextBin
  \/ \E binNum \in JumpInputs : handleJumpToFreqBin(binNum)

SpecSelect == Init /\ [][NextSelect]_vars

\* C30: every bin a user can select in SummationSection (card, previous and
\* next button, jump-to-bin input) indexes an entry of the results: after a
\* selection selectedFrequencyBin < dftResults.length whenever there are
\* results, also for N > 1024.
C30_SelectionIndexesResult ==
  [][(selectedFrequencyBin' # selectedFrequencyBin
      /\ currentData'.dftResults.len > 0) =>
       selectedFrequencyBin' < currentData'.dftResults.len]_vars

====
